---------------------------- MODULE Spec2Model ----------------------------
(***************************************************************************)
(* A model of site_scraper.py (class SiteScraper): the crawl driven by     *)
(* scrape / process_page, the resource discovery of extract_resources and  *)
(* analyze_javascript, the download pipeline of download_resource and the  *)
(* path mapping of create_directory_structure.                             *)
(*                                                                         *)
(* URLs and paths are TLA+ strings; the string functions of the Python     *)
(* code (startswith, endswith, lstrip, split, urlparse, urljoin,           *)
(* os.path.join) are operators computed character by character.            *)
(***************************************************************************)
EXTENDS Integers, Sequences, FiniteSets, TLC

(***************************************************************************)
(* Strings                                                                 *)
(***************************************************************************)

\* s[i] of Python, 1-based, as a one-character string
CharAt(s, i) == SubSeq(s, i, i)

\* s[i-1:] of Python: the suffix that starts at position i
From(s, i) == SubSeq(s, i, Len(s))

\* str.startswith(p)
StartsWith(s, p) == Len(s) >= Len(p) /\ SubSeq(s, 1, Len(p)) = p

\* str.startswith((p1, p2, ...)) with a tuple of prefixes
StartsWithAny(s, ps) == \E p \in ps : StartsWith(s, p)

\* str.endswith(p)
EndsWith(s, p) == Len(s) >= Len(p) /\ SubSeq(s, Len(s) - Len(p) + 1, Len(s)) = p

\* str.endswith((p1, p2, ...))
EndsWithAny(s, ps) == \E p \in ps : EndsWith(s, p)

\* sub in s
Contains(s, sub) == \E i \in 1..(Len(s) - Len(sub) + 1) : SubSeq(s, i, i + Len(sub) - 1) = sub

\* s.find(sub) + 1 : the 1-based position of the first occurrence, 0 when there is none
Find(s, sub) ==
  IF Contains(s, sub)
  THEN CHOOSE i \in 1..(Len(s) - Len(sub) + 1) :
         /\ SubSeq(s, i, i + Len(sub) - 1) = sub
         /\ \A j \in 1..(i - 1) : SubSeq(s, j, j + Len(sub) - 1) # sub
  ELSE 0

\* s.rfind(sub) + 1
RFind(s, sub) ==
  IF Contains(s, sub)
  THEN CHOOSE i \in 1..(Len(s) - Len(sub) + 1) :
         /\ SubSeq(s, i, i + Len(sub) - 1) = sub
         /\ \A j \in (i + 1)..(Len(s) - Len(sub) + 1) : SubSeq(s, j, j + Len(sub) - 1) # sub
  ELSE 0

\* s.split(sep)[0]
SplitFirst(s, sep) == IF Contains(s, sep) THEN SubSeq(s, 1, Find(s, sep) - 1) ELSE s

\* s.lstrip(c) for a one-character c
LStrip(s, c) ==
  IF \A i \in 1..Len(s) : CharAt(s, i) = c THEN ""
  ELSE From(s, CHOOSE i \in 1..Len(s) :
                 CharAt(s, i) # c /\ \A j \in 1..(i - 1) : CharAt(s, j) = c)

\* the member of a one-element set; {e(x) : x \in {v}} computes v once for
\* all its uses in e
The(S) == CHOOSE x \in S : TRUE

UpperCase == <<"A", "B", "C", "D", "E", "F", "G", "H", "I", "J", "K", "L", "M",
               "N", "O", "P", "Q", "R", "S", "T", "U", "V", "W", "X", "Y", "Z">>
LowerCase == <<"a", "b", "c", "d", "e", "f", "g", "h", "i", "j", "k", "l", "m",
               "n", "o", "p", "q", "r", "s", "t", "u", "v", "w", "x", "y", "z">>
Digits == {"0", "1", "2", "3", "4", "5", "6", "7", "8", "9"}

LowerChar(c) ==
  IF \E k \in 1..26 : UpperCase[k] = c
  THEN LowerCase[CHOOSE k \in 1..26 : UpperCase[k] = c]
  ELSE c

RECURSIVE LowerFrom(_, _)
LowerFrom(s, i) ==
  IF i > Len(s) THEN "" ELSE LowerChar(CharAt(s, i)) \o LowerFrom(s, i + 1)

\* str.lower()
Lower(s) == LowerFrom(s, 1)

\* re.sub(r'[^\w\-_]', '_', s)
IsWordChar(c) ==
  \/ \E k \in 1..26 : UpperCase[k] = c \/ LowerCase[k] = c
  \/ c \in Digits
  \/ c \in {"_", "-"}

RECURSIVE SafeNameFrom(_, _)
SafeNameFrom(s, i) ==
  IF i > Len(s) THEN ""
  ELSE (IF IsWordChar(CharAt(s, i)) THEN CharAt(s, i) ELSE "_") \o SafeNameFrom(s, i + 1)

SafeName(s) == SafeNameFrom(s, 1)

(***************************************************************************)
(* urllib.parse, as far as the program uses it.  The URLs of the model     *)
(* carry no ";" parameters and no "." or ".." path segments.               *)
(***************************************************************************)

SchemeChars == {LowerCase[k] : k \in 1..26} \cup {UpperCase[k] : k \in 1..26}
                 \cup Digits \cup {"+", "-", "."}

\* the position of the ":" that ends a scheme, 0 when the string has no scheme
SchemeEnd(u) ==
  LET i == Find(u, ":")
  IN  IF /\ i > 1
         /\ \E k \in 1..26 : CharAt(u, 1) \in {LowerCase[k], UpperCase[k]}
         /\ \A j \in 1..(i - 1) : CharAt(u, j) \in SchemeChars
      THEN i ELSE 0

\* the 1-based position of the first of "/", "?", "#" at or after position i,
\* Len(s) + 1 when there is none (urllib.parse._splitnetloc)
RECURSIVE NetlocEnd(_, _)
NetlocEnd(s, i) ==
  IF i > Len(s) THEN Len(s) + 1
  ELSE IF CharAt(s, i) \in {"/", "?", "#"} THEN i
  ELSE NetlocEnd(s, i + 1)

\* urlsplit, step 1: <<scheme, rest>>
SplitScheme(u) ==
  The({IF se > 0 THEN <<Lower(SubSeq(u, 1, se - 1)), From(u, se + 1)>> ELSE <<"", u>> :
         se \in {SchemeEnd(u)}})

\* urlsplit, step 2: <<netloc, rest>>
SplitNetloc(r) ==
  IF StartsWith(r, "//")
  THEN The({<<SubSeq(r, 3, ne - 1), From(r, ne)>> : ne \in {NetlocEnd(r, 3)}})
  ELSE <<"", r>>

\* urlsplit, steps 3 and 4: <<before, after>> the first sep, after "" without one
SplitAt(r, sep) ==
  The({IF i > 0 THEN <<SubSeq(r, 1, i - 1), From(r, i + 1)>> ELSE <<r, "">> :
         i \in {Find(r, sep)}})

\* urlparse(u): scheme, netloc, path, query, fragment
urlparse(u) ==
  The({The({The({The({
      [scheme |-> sr[1], netloc |-> nr[1], path |-> pq[1],
       query |-> pq[2], fragment |-> rf[2]] :
        pq \in {SplitAt(rf[1], "?")}}) :
        rf \in {SplitAt(nr[2], "#")}}) :
        nr \in {SplitNetloc(sr[2])}}) :
        sr \in {SplitScheme(u)}})

\* urlunparse of the five parts
urlunparse(scheme, netloc, path, query, frag) ==
  LET p1 == IF netloc # ""
            THEN "//" \o netloc \o (IF path # "" /\ ~StartsWith(path, "/") THEN "/" ELSE "") \o path
            ELSE path
      p2 == IF scheme # "" THEN scheme \o ":" \o p1 ELSE p1
      p3 == IF query # "" THEN p2 \o "?" \o query ELSE p2
  IN  IF frag # "" THEN p3 \o "#" \o frag ELSE p3

\* the schemes of urllib.parse.uses_relative and uses_netloc the model meets
UsesRelative == {"", "http", "https", "ftp", "file"}

\* urljoin, with base and url parsed as b and u
JoinParsed(url, b, u, scheme) ==
  IF scheme # b.scheme \/ scheme \notin UsesRelative THEN url
  ELSE IF u.netloc # ""
    THEN urlunparse(scheme, u.netloc, u.path, u.query, u.fragment)
  ELSE IF u.path = ""
    THEN urlunparse(scheme, b.netloc, b.path,
                    IF u.query # "" THEN u.query ELSE b.query, u.fragment)
  ELSE IF StartsWith(u.path, "/")
    THEN urlunparse(scheme, b.netloc, u.path, u.query, u.fragment)
  ELSE
    The({urlunparse(scheme, b.netloc, (IF dir = "" THEN "/" ELSE dir) \o u.path,
                    u.query, u.fragment) :
           dir \in {SubSeq(b.path, 1, RFind(b.path, "/"))}})

\* urljoin(base, url); url is parsed with the scheme of base as its default
urljoin(base, url) ==
  IF base = "" THEN url
  ELSE IF url = "" THEN base
  ELSE The({JoinParsed(url, b, u, IF u.scheme # "" THEN u.scheme ELSE b.scheme) :
              b \in {urlparse(base)}, u \in {urlparse(url)}})

\* os.path.join(a, b) on POSIX
PathJoin(a, b) ==
  IF StartsWith(b, "/") THEN b
  ELSE IF a = "" \/ EndsWith(a, "/") THEN a \o b
  ELSE a \o "/" \o b

(***************************************************************************)
(* Bounds of the model                                                     *)
(***************************************************************************)

\* resource fetches and analysis fetches that fail (non-200 status or an
\* exception) in one run
MaxFailures == 2

\* commands other than "done" the operator enters at one interactive prompt
MaxCommands == 1

(***************************************************************************)
(* The web the crawler is run against: what the browser and the HTTP       *)
(* clients return for a URL.  A document is what BeautifulSoup finds in    *)
(* page_source; a script text is the list of idioms the regular            *)
(* expressions of analyze_javascript match in it, and a stylesheet text    *)
(* the list of its url(...) and @import references.  No script text binds  *)
(* a variable to a string literal, so path_vars is empty.                  *)
(***************************************************************************)

Origin  == "https://example.test"
Root    == "https://example.test/"
About   == "https://example.test/about"
Deep    == "https://example.test/a/b"
Logo    == "https://example.test/img/logo.png"
LogoV2  == "https://example.test/img/logo.png?v=2"
Sheet   == "https://example.test/a/b.css"
Texture == "https://example.test/x/y.png"
Lookalike    == "https://example.test.evil.com/"
LookalikeImg == "https://example.test.evil.com/x.png"
Foreign == "https://b.test/"
CdnLib  == "https://cdn.test/lib.js"
DataUrl == "data:image/png;base64,AA"
JsUrl   == "javascript:void(0)"

EmptyDoc ==
  [scripts |-> <<>>, stylesheets |-> <<>>, media |-> <<>>, metas |-> <<>>,
   other |-> <<>>, links |-> <<>>, perf |-> {}]

\* web 1: the two pages of the end-to-end scenario
ScenarioDoc(url) ==
  IF url \in {Root, Origin}
  THEN [EmptyDoc EXCEPT !.media = <<[tag |-> "img", attr |-> "src", value |-> "/img/logo.png"]>>,
                        !.links = <<About>>,
                        !.perf  = {Logo}]
  ELSE EmptyDoc

\* web 2: pages with cycles, out-of-scope links and every discovery source
TangledDoc(url) ==
  CASE url \in {Root, Origin} ->
         [EmptyDoc EXCEPT
            !.scripts = <<[src |-> CdnLib, text |-> <<>>]>>,
            !.media   = <<[tag |-> "img", attr |-> "src", value |-> "/img/logo.png"],
                          [tag |-> "img", attr |-> "src", value |-> DataUrl]>>,
            !.links   = <<"/about", Lookalike, Foreign, "/doc.pdf", "/", "/a/b">>,
            !.perf    = {Logo}]
    [] url = About ->
         [EmptyDoc EXCEPT
            !.stylesheets = <<"/a/b.css">>,
            !.media   = <<[tag |-> "img", attr |-> "src", value |-> "/img/logo.png"],
                          [tag |-> "img", attr |-> "data-src", value |-> "/img/logo.png?v=2"],
                          [tag |-> "video", attr |-> "data-src", value |-> LookalikeImg]>>,
            !.links   = <<"/", "/a/b">>]
    [] url = Deep ->
         [EmptyDoc EXCEPT
            !.scripts = <<[src |-> "//cdn.test/lib.js", text |-> <<>>],
                          [src |-> "", text |-> <<[call |-> ".load", arg |-> "/img/logo.png"]>>]>>,
            !.metas   = <<[content |-> "/img/logo.png", keyword |-> TRUE]>>,
            !.links   = <<"/about">>]
    [] OTHER -> EmptyDoc

\* web 3: srcset attributes; the one of /about ends in a comma
SrcsetDoc(url) ==
  CASE url \in {Root, Origin} ->
         [EmptyDoc EXCEPT
            !.media = <<[tag |-> "img", attr |-> "srcset",
                         value |-> "/img/logo.png 1x, /img/logo.png?v=2 2x"]>>,
            !.links = <<"/about">>]
    [] url = About ->
         [EmptyDoc EXCEPT
            !.media = <<[tag |-> "img", attr |-> "srcset", value |-> "/img/logo.png 1x, "]>>]
    [] OTHER -> EmptyDoc

Webs == {1, 2, 3}

\* the starting URLs: the site root with and without its final slash
BaseUrls == {Root, Origin}

\* driver.page_source for url, parsed
Doc(w, url) ==
  CASE w = 1 -> ScenarioDoc(url)
    [] w = 2 -> TangledDoc(url)
    [] OTHER -> SrcsetDoc(url)

\* response.text of requests.get(script_url)
ScriptTextAt(url) ==
  IF url = CdnLib
  THEN <<[call |-> "load", arg |-> "/img/logo.png"],
         [call |-> "import", arg |-> JsUrl]>>
  ELSE <<>>

\* response.text of requests.get(css_url)
CssTextAt(url) ==
  IF url = Sheet
  THEN <<[rule |-> "url", ref |-> "/x/y.png"],
         [rule |-> "url", ref |-> DataUrl]>>
  ELSE <<>>

Range(f) == {f[i] : i \in DOMAIN f}

(***************************************************************************)
(* Path Mapper                                                             *)
(***************************************************************************)

\* self.output_dir = Path(output_dir) / safe_folder_name, with the default
\* output_dir "scraped_site"
output_dir(base) == "scraped_site/" \o SafeName(urlparse(base).netloc)

\* pathlib: Path(dir) / rel, which drops a trailing "/" and an empty rel
RStrip(s, c) ==
  IF \A i \in 1..Len(s) : CharAt(s, i) = c THEN ""
  ELSE SubSeq(s, 1, CHOOSE i \in 1..Len(s) :
                      CharAt(s, i) # c /\ \A j \in (i + 1)..Len(s) : CharAt(s, j) = c)

PathDiv(dir, rel) ==
  The({IF r = "" THEN dir ELSE dir \o "/" \o r : r \in {RStrip(rel, "/")}})

\* lines 77-81 left out: the url_path is used as it is, query included
create_directory_structure_keeps_query(base, url_path) ==
  IF url_path = "" \/ url_path = "/"
  THEN PathDiv(output_dir(base), "index.html")
  ELSE PathDiv(output_dir(base), LStrip(url_path, "/"))

\* create_directory_structure(url_path): the path it returns
create_directory_structure(base, url_path) ==
  IF url_path = "" \/ url_path = "/"
  THEN PathDiv(output_dir(base), "index.html")
  ELSE The({PathDiv(output_dir(base), path) :
              path \in {SplitFirst(LStrip(urlparse(url_path).path, "/"), "?")}})

\* process_page: the url_path of a page, handed to create_directory_structure
PageUrlPath(url) ==
  The({IF url_path = "" THEN "index.html"
       ELSE IF ~EndsWith(url_path, ".html") THEN PathJoin(url_path, "index.html")
       ELSE url_path :
         url_path \in {urlparse(url).path}})

\* process_page: save_path of the page url
PageSavePath(base, url) ==
  The({create_directory_structure(base, url_path) : url_path \in {PageUrlPath(url)}})

\* download_resource: the url_path of a resource that is written
ResourceUrlPath(base, url) ==
  IF StartsWith(url, base) THEN From(url, Len(base) + 1) ELSE url

\* download_resource: save_path of the resource url
ResourceSavePath(base, url) ==
  The({create_directory_structure(base, url_path) : url_path \in {ResourceUrlPath(base, url)}})

(***************************************************************************)
(* The string functions above are evaluated once, over every string the    *)
(* run can hand them, and looked up afterwards.                            *)
(***************************************************************************)

\* every URL a page of the webs is rendered at or links to
Pages == {Root, Origin, About, Deep, Lookalike, Foreign, "https://example.test/doc.pdf"}

\* tag[attr].split(','): the pieces of s between the occurrences of c
RECURSIVE SplitFrom(_, _, _, _)
SplitFrom(s, c, i, start) ==
  IF i > Len(s) THEN <<SubSeq(s, start, Len(s))>>
  ELSE IF CharAt(s, i) = c
       THEN <<SubSeq(s, start, i - 1)>> \o SplitFrom(s, c, i + 1, i + 1)
       ELSE SplitFrom(s, c, i + 1, start)

Split(s, c) == SplitFrom(s, c, 1, 1)

\* src_str.strip(); the blanks of the documents are spaces
Strip(s) == The({RStrip(t, " ") : t \in {LStrip(s, " ")}})

\* lines 216-217: the stripped entries of a srcset value
SrcsetEntries(v) == {Strip(e) : e \in Range(Split(v, ","))}

\* line 217: split()[0] of an entry that holds no token raises IndexError;
\* else it is the entry up to its first blank
SrcsetParse(v) ==
  The({[raises |-> "" \in es, urls |-> {SplitFirst(e, " ") : e \in es \ {""}}] :
         es \in {SrcsetEntries(v)}})

\* the media attributes of a document that line 215 sends to the srcset branch
SrcsetAttrs(d) == {x \in Range(d.media) : x.attr = "srcset" /\ x.value # ""}

SrcsetTable ==
  [v \in UNION {{m.value : m \in SrcsetAttrs(Doc(w, u))} : w \in Webs, u \in Pages} |->
     SrcsetParse(v)]

DocRefs(d) ==
  {sc.src : sc \in Range(d.scripts)}
    \cup UNION {SrcsetTable[m.value].urls : m \in SrcsetAttrs(d)}
    \cup UNION {{o.arg : o \in Range(sc.text)} : sc \in Range(d.scripts)}
    \cup Range(d.stylesheets)
    \cup {m.value : m \in Range(d.media)}
    \cup {m.content : m \in Range(d.metas)}
    \cup {o.value : o \in Range(d.other)}
    \cup Range(d.links)

\* every reference string of the documents, script texts and stylesheet texts
Refs ==
  UNION {DocRefs(Doc(w, u)) : w \in Webs, u \in Pages}
    \cup {o.arg : o \in Range(ScriptTextAt(CdnLib))}
    \cup {r.ref : r \in Range(CssTextAt(Sheet))}
    \cup {"./img/logo.png"}

JoinTable == [b \in Pages |-> [r \in Refs |-> urljoin(b, r)]]

\* urljoin(b, r), looked up
Join(b, r) == JoinTable[b][r]

\* every URL the run can meet
KnownUrls ==
  Pages \cup {JoinTable[b][r] : b \in Pages, r \in Refs}
        \cup UNION {Doc(w, u).perf : w \in Webs, u \in Pages}

PathTable ==
  [base \in BaseUrls |-> [u \in KnownUrls |->
     [page |-> PageSavePath(base, u), resource |-> ResourceSavePath(base, u)]]]

\* any(ext in value.lower() for ext in [...]) of the attribute scan, looked up
HeuristicExts == {".glb", ".gltf", ".bin", ".jpg", ".png", ".basis"}
ScanTable == [v \in Refs |-> \E e \in HeuristicExts : Contains(Lower(v), e)]

(***************************************************************************)
(* Resource Extractor                                                      *)
(***************************************************************************)

\* the idioms matched by the ten patterns of analyze_javascript
PatternCalls == {"src:", "href:", "url:", "load", "fetch", "import", "new Image",
                 "new Audio", ".load", ".loadTexture", ".setPath", "backtick",
                 ".join", ".resolve", "literal"}

\* the idioms matched by the import/require expression
ImportCalls == {"import", "require"}

\* the prefixes refused in the pattern loop
PatternRefused == {"http://", "https://", "data:", "blob:", "javascript:"}

\* the prefixes refused in the import loop and in the stylesheet loop
ImportRefused == {"http://", "https://", "data:", "blob:"}

\* analyze_javascript(js_content, base_url)
analyze_javascript(text, base) ==
  LET occ      == Range(text)
      matches  == {o.arg : o \in {x \in occ : x.call \in PatternCalls}}
      kept     == {m \in matches : m # "" /\ ~StartsWithAny(m, PatternRefused)}
      stripped == {IF StartsWith(m, "./") THEN From(m, 3) ELSE m : m \in kept}
      imports  == {o.arg : o \in {x \in occ : x.call \in ImportCalls}}
  IN  {Join(base, m) : m \in stripped}
        \cup {Join(base, i) : i \in {x \in imports : ~StartsWithAny(x, ImportRefused)}}

\* the external scripts and stylesheets extract_resources fetches for analysis
AnalysisSources(doc, base) ==
  {Join(base, sc.src) : sc \in {x \in Range(doc.scripts) : x.src # ""}}
    \cup {Join(base, h) : h \in {x \in Range(doc.stylesheets) : x # ""}}

\* extract_resources: <script src>, and the analysis of the fetched text
FromExternalScripts(doc, base, fetched) ==
  LET urls == {Join(base, sc.src) : sc \in {x \in Range(doc.scripts) : x.src # ""}}
  IN  urls \cup UNION {analyze_javascript(ScriptTextAt(u), base) :
                         u \in {x \in urls : fetched[x] = "ok"}}

\* extract_resources: inline script bodies
FromInlineScripts(doc, base) ==
  UNION {analyze_javascript(sc.text, base) : sc \in {x \in Range(doc.scripts) : x.text # <<>>}}

\* extract_resources: <link rel=stylesheet>, url(...) and @import of the fetched text
FromStylesheets(doc, base, fetched) ==
  LET urls == {Join(base, h) : h \in {x \in Range(doc.stylesheets) : x # ""}}
      refs(u) == {r.ref : r \in Range(CssTextAt(u))}
  IN  urls \cup UNION {{Join(base, m) : m \in {x \in refs(u) : ~StartsWithAny(x, ImportRefused)}} :
                         u \in {x \in urls : fetched[x] = "ok"}}

MediaTags  == {"img", "video", "audio", "source", "model-viewer", "canvas"}
MediaAttrs == {"src", "data-src", "srcset", "href", "data-model", "data-texture"}

\* extract_resources, lines 212-220: the attributes of media tags; a srcset is
\* split into its entries
FromMediaTags(doc, base) ==
  {Join(base, m.value) :
     m \in {x \in Range(doc.media) : /\ x.tag \in MediaTags
                                     /\ x.attr \in MediaAttrs \ {"srcset"}
                                     /\ x.value # ""}}
    \cup UNION {{Join(base, u) : u \in SrcsetTable[m.value].urls} :
                  m \in {x \in SrcsetAttrs(doc) : x.tag \in MediaTags}}

\* extract_resources, line 217: the parsing of a srcset of the document raises
SrcsetRaises(doc) ==
  \E m \in SrcsetAttrs(doc) : m.tag \in MediaTags /\ SrcsetTable[m.value].raises

\* extract_resources: meta tags
FromMetaTags(doc, base) ==
  {Join(base, m.content) :
     m \in {x \in Range(doc.metas) : /\ x.content # ""
                                     /\ StartsWithAny(x.content, {"/", "http"})
                                     /\ x.keyword}}

\* every string attribute value of every tag of the document
AllAttributeValues(doc) ==
  {sc.src : sc \in {x \in Range(doc.scripts) : x.src # ""}}
    \cup Range(doc.stylesheets)
    \cup {m.value : m \in Range(doc.media)}
    \cup {m.content : m \in Range(doc.metas)}
    \cup {o.value : o \in Range(doc.other)}
    \cup Range(doc.links)

\* extract_resources: the scan of all attributes for known extensions
FromAttributeScan(doc, base) ==
  {Join(base, v) :
     v \in {x \in AllAttributeValues(doc) : ScanTable[x]}}

\* extract_resources(soup, base_url); fetched gives, for each external script
\* and stylesheet, how requests.get ended: "ok", "status" or "raise"
extract_resources(doc, base, fetched) ==
  FromExternalScripts(doc, base, fetched)
    \cup FromInlineScripts(doc, base)
    \cup FromStylesheets(doc, base, fetched)
    \cup FromMediaTags(doc, base)
    \cup FromMetaTags(doc, base)
    \cup FromAttributeScan(doc, base)

\* the script run in the browser: the resource-timing entries, and the URL
\* properties of script, link, img, audio, video and source elements, which the
\* browser reports resolved, without those beginning with data: or blob:
loaded_resources(doc, base) ==
  LET props == {Join(base, sc.src) : sc \in {x \in Range(doc.scripts) : x.src # ""}}
                 \cup {Join(base, h) : h \in {x \in Range(doc.stylesheets) : x # ""}}
                 \cup {Join(base, m.value) :
                         m \in {x \in Range(doc.media) :
                                  /\ x.tag \in {"img", "audio", "video", "source"}
                                  /\ x.attr = "src" /\ x.value # ""}}
  IN  doc.perf \cup {u \in props : ~StartsWith(u, "data:") /\ ~StartsWith(u, "blob:")}

(***************************************************************************)
(* State                                                                   *)
(***************************************************************************)

VARIABLES
  base_url,          \* self.base_url
  web,               \* which of the webs the run meets
  interactive,       \* self.interactive
  visited_urls,      \* self.visited_urls
  downloaded_files,  \* self.downloaded_files
  stack,             \* the active process_page calls, the innermost last
  spc,               \* where scrape is: "init", "running", "finally", "done"
  raising,           \* an exception is propagating out of process_page
  driverFailed,      \* a call on self.driver has raised
  srcsetFailed,      \* the parsing of a srcset attribute has raised
  renders,           \* the URLs given to driver.get, in order
  gets,              \* <<page, url>> -> number of session.get(url) issued for page
  launches,          \* <<page, url>> -> number of download tasks made for page
  files,             \* path -> the writes made to it, in order
  quits,             \* number of driver.quit() calls
  summary,           \* the completion summary was logged
  failures,          \* fetches that have failed so far, by kind
  mapArg,            \* the argument given to the Path Mapper
  mapResult          \* the path the Path Mapper returned for mapArg

vars == <<base_url, web, interactive, visited_urls, downloaded_files, stack, spc,
          raising, driverFailed, srcsetFailed, renders, gets, launches, files, quits, summary,
          failures, mapArg, mapResult>>

inputs == <<base_url, web, interactive>>
mapVars == <<mapArg, mapResult>>

NoArg == [kind |-> "none", p |-> "", q |-> "", url |-> ""]

Init ==
  /\ base_url \in BaseUrls
  /\ web \in Webs
  /\ interactive \in BOOLEAN
  /\ visited_urls = {}
  /\ downloaded_files = {}
  /\ stack = <<>>
  /\ spc = "init"
  /\ raising = FALSE
  /\ driverFailed = FALSE
  /\ srcsetFailed = FALSE
  /\ renders = <<>>
  /\ gets = <<>>
  /\ launches = <<>>
  /\ files = <<>>
  /\ quits = 0
  /\ summary = FALSE
  /\ failures = [analysis |-> 0, download |-> 0, write |-> 0]
  /\ mapArg = NoArg
  /\ mapResult = ""

\* a counter map with key k counted once more
Bump(m, k) == IF k \in DOMAIN m THEN [m EXCEPT ![k] = @ + 1] ELSE m @@ (k :> 1)
Count(m, k) == IF k \in DOMAIN m THEN m[k] ELSE 0

\* open(path, 'w').write(...): the write is appended to the history of path
WriteFile(fs, path, w) ==
  IF path \in DOMAIN fs THEN [fs EXCEPT ![path] = Append(@, w)] ELSE fs @@ (path :> <<w>>)

Top == stack[Len(stack)]
SetTop(f) == [stack EXCEPT ![Len(stack)] = f]
Pop == SubSeq(stack, 1, Len(stack) - 1)

RECURSIVE SetToSeq(_)
SetToSeq(S) ==
  IF S = {} THEN <<>>
  ELSE LET x == CHOOSE y \in S : TRUE IN <<x>> \o SetToSeq(S \ {x})

\* line 239 left out: the URL is not recorded
MarkVisitedForgets(v, url) == v

\* process_page, line 239: self.visited_urls.add(url)
MarkVisited(v, url) == v \cup {url}

\* process_page, lines 236-243: the frame of a new call, up to driver.get(url)
NewFrame(url) ==
  [url |-> url, pc |-> "render", found |-> {}, tasks |-> <<>>, next |-> 1, cmds |-> 0]

\* the membership test answers no for every URL
VisitedNever(v, url) == FALSE

\* lines 236 and 369: url in self.visited_urls
Visited(v, url) == url \in v

\* the call process_page(url) made with the stack stk: an immediate return when
\* url is visited, else the URL is marked and driver.get(url) is called
CallProcessPage(url, stk) ==
  IF Visited(visited_urls, url)
  THEN /\ stack' = stk
       /\ UNCHANGED <<visited_urls, renders>>
  ELSE /\ visited_urls' = MarkVisited(visited_urls, url)
       /\ renders' = Append(renders, url)
       /\ stack' = Append(stk, NewFrame(url))

(***************************************************************************)
(* scrape and process_page                                                 *)
(***************************************************************************)

\* scrape, lines 378-382: the first call of process_page
ScrapeStart ==
  /\ spc = "init"
  /\ spc' = "running"
  /\ CallProcessPage(base_url, stack)
  /\ UNCHANGED <<inputs, downloaded_files, raising, driverFailed, srcsetFailed, gets, launches,
                 files, quits, summary, failures, mapVars>>

\* lines 243-307, not interactive: driver.get, both waits and page_source return.
\* Interactive: driver.get returns and the prompt is shown
RenderOk ==
  /\ stack # <<>> /\ Top.pc = "render"
  /\ stack' = SetTop([Top EXCEPT !.pc = IF interactive THEN "prompt" ELSE "save"])
  /\ UNCHANGED <<inputs, visited_urls, downloaded_files, spc, raising, driverFailed, srcsetFailed,
                 renders, gets, launches, files, quits, summary, failures, mapVars>>

Commands == {"help", "url", "wait", "refresh"}

\* lines 255-276: one command other than done
Command(c) ==
  /\ stack # <<>> /\ Top.pc = "prompt"
  /\ Top.cmds < MaxCommands
  /\ stack' = SetTop([Top EXCEPT !.cmds = @ + 1])
  /\ UNCHANGED <<inputs, visited_urls, downloaded_files, spc, raising, driverFailed, srcsetFailed,
                 renders, gets, launches, files, quits, summary, failures, mapVars>>

\* lines 257-258: done leaves the loop
CommandDone ==
  /\ stack # <<>> /\ Top.pc = "prompt"
  /\ stack' = SetTop([Top EXCEPT !.pc = "settle"])
  /\ UNCHANGED <<inputs, visited_urls, downloaded_files, spc, raising, driverFailed, srcsetFailed,
                 renders, gets, launches, files, quits, summary, failures, mapVars>>

\* lines 290-307 after the prompt: the settle wait and page_source return
Settled ==
  /\ stack # <<>> /\ Top.pc = "settle"
  /\ stack' = SetTop([Top EXCEPT !.pc = "save"])
  /\ UNCHANGED <<inputs, visited_urls, downloaded_files, spc, raising, driverFailed, srcsetFailed,
                 renders, gets, launches, files, quits, summary, failures, mapVars>>

\* a call on self.driver raises: driver.get, execute_script or page_source
\* (lines 243-306, those of the wait and refresh commands included), or the
\* execute_script of line 323
DriverFail ==
  /\ stack # <<>> /\ Top.pc \in {"render", "prompt", "settle", "netlog"}
  /\ driverFailed' = TRUE
  /\ raising' = TRUE
  /\ stack' = SetTop([Top EXCEPT !.pc = "except"])
  /\ UNCHANGED <<inputs, visited_urls, downloaded_files, spc, srcsetFailed, renders,
                 gets, launches, files, quits, summary, failures, mapVars>>

\* lines 309-318: the page is written to its mapped path
SavePage ==
  /\ stack # <<>> /\ Top.pc = "save"
  /\ files' = WriteFile(files, PathTable[base_url][Top.url].page,
                        [kind |-> "page", url |-> Top.url, page |-> Top.url])
  /\ stack' = SetTop([Top EXCEPT !.pc = "extract"])
  /\ UNCHANGED <<inputs, visited_urls, downloaded_files, spc, raising, driverFailed, srcsetFailed,
                 renders, gets, launches, quits, summary, failures, mapVars>>

FetchOutcomes == {"ok", "status", "raise"}

NotOk(f) == Cardinality({x \in DOMAIN f : f[x] # "ok"})

FailureCount == failures.analysis + failures.download + failures.write

\* extract_resources, lines 184 and 209: except Exception around each analysis fetch
AnalysisErrorCaught == TRUE

\* line 320: extract_resources(soup, url); fetched tells how each requests.get
\* ends.  An IndexError of line 217 leaves extract_resources and is caught at
\* line 373
Extract(fetched) ==
  /\ stack # <<>> /\ Top.pc = "extract"
  /\ FailureCount + NotOk(fetched) <= MaxFailures
  /\ failures' = [failures EXCEPT !.analysis = @ + NotOk(fetched)]
  /\ srcsetFailed' = (srcsetFailed \/ SrcsetRaises(Doc(web, Top.url)))
  /\ IF \/ (\E x \in DOMAIN fetched : fetched[x] = "raise") /\ ~AnalysisErrorCaught
        \/ SrcsetRaises(Doc(web, Top.url))
     THEN /\ raising' = TRUE
          /\ stack' = SetTop([Top EXCEPT !.pc = "except"])
     ELSE /\ raising' = raising
          /\ stack' = SetTop([Top EXCEPT
                 !.found = extract_resources(Doc(web, Top.url), Top.url, fetched),
                 !.pc = "netlog"])
  /\ UNCHANGED <<inputs, visited_urls, downloaded_files, spc, driverFailed, renders,
                 gets, launches, files, quits, summary, mapVars>>

\* the two lists of URLs appended instead of merged into one set
TaskUrlsConcatenated(found, loaded) == SetToSeq(found) \o SetToSeq({r \in loaded : r # ""})

\* lines 321-359: the URLs of the download tasks, one per member of the set resources
TaskUrls(found, loaded) == SetToSeq(found \cup {r \in loaded : r # ""})

NewTask(u) == [url |-> u, st |-> "created", result |-> "none"]

RECURSIVE BumpAll(_, _, _)
BumpAll(m, page, us) ==
  IF us = <<>> THEN m ELSE BumpAll(Bump(m, <<page, Head(us)>>), page, Tail(us))

\* lines 323-359: the browser's resource log is added and the tasks are made
NetworkLog ==
  /\ stack # <<>> /\ Top.pc = "netlog"
  /\ LET us == TaskUrls(Top.found, loaded_resources(Doc(web, Top.url), Top.url))
     IN  /\ stack' = SetTop([Top EXCEPT !.tasks = [i \in 1..Len(us) |-> NewTask(us[i])],
                                         !.pc = "download"])
         /\ launches' = BumpAll(launches, Top.url, us)
  /\ UNCHANGED <<inputs, visited_urls, downloaded_files, spc, raising, driverFailed, srcsetFailed,
                 renders, gets, files, quits, summary, failures, mapVars>>

(***************************************************************************)
(* download_resource                                                       *)
(***************************************************************************)

\* lines 92-96: the dedup check, then session.get(url) is issued
TaskStart(i) ==
  /\ stack # <<>> /\ Top.pc = "download"
  /\ i \in DOMAIN Top.tasks /\ Top.tasks[i].st = "created"
  /\ LET u == Top.tasks[i].url
     IN  IF u \in downloaded_files
         THEN /\ stack' = SetTop([Top EXCEPT !.tasks[i].st = "done",
                                             !.tasks[i].result = "skipped"])
              /\ gets' = gets
         ELSE /\ stack' = SetTop([Top EXCEPT !.tasks[i].st = "get"])
              /\ gets' = Bump(gets, <<Top.url, u>>)
  /\ UNCHANGED <<inputs, visited_urls, downloaded_files, spc, raising, driverFailed, srcsetFailed,
                 renders, launches, files, quits, summary, failures, mapVars>>

\* line 100: the fetched bytes are returned without being written
ReturnedUnwritten(url) == ~StartsWith(url, base_url) /\ ~StartsWith(url, "/")

\* lines 118-119 left out: an exception of session.get leaves download_resource
DownloadErrorEscapes == FALSE

\* lines 118-119: except Exception in download_resource
DownloadErrorCaught == TRUE

\* line 113 moved above line 111: the URL is recorded before the write
RecordedBeforeWrite(d, u) == d \cup {u}

\* lines 111-113: an exception of open or write leaves the try before
\* self.downloaded_files.add(url)
RecordedOnWriteError(d, u) == d

\* how a download ends: as a fetch does, or with status 200 and an OSError
\* from makedirs, open or write (lines 108-112)
DownloadOutcomes == FetchOutcomes \cup {"oserror"}

\* lines 96-120: the response arrives with status 200 ("ok"), with another
\* status ("status"), or the request raises ("raise"); with "oserror" the
\* response is 200 and the write raises
TaskFinish(i, outcome) ==
  /\ stack # <<>> /\ Top.pc = "download"
  /\ i \in DOMAIN Top.tasks /\ Top.tasks[i].st = "get"
  /\ outcome # "ok" => FailureCount < MaxFailures
  /\ outcome = "oserror" => ~ReturnedUnwritten(Top.tasks[i].url)
  /\ failures' = CASE outcome = "ok"      -> failures
                   [] outcome = "oserror" -> [failures EXCEPT !.write = @ + 1]
                   [] OTHER               -> [failures EXCEPT !.download = @ + 1]
  /\ LET u == Top.tasks[i].url
     IN  CASE outcome = "ok" /\ ReturnedUnwritten(u) ->
                /\ stack' = SetTop([Top EXCEPT !.tasks[i].st = "done",
                                               !.tasks[i].result = "bytes"])
                /\ UNCHANGED <<files, downloaded_files, raising>>
           [] outcome = "ok" /\ ~ReturnedUnwritten(u) ->
                /\ files' = WriteFile(files, PathTable[base_url][u].resource,
                                      [kind |-> "resource", url |-> u, page |-> Top.url])
                /\ downloaded_files' = downloaded_files \cup {u}
                /\ stack' = SetTop([Top EXCEPT !.tasks[i].st = "done",
                                               !.tasks[i].result = "saved"])
                /\ UNCHANGED raising
           [] outcome = "oserror" /\ DownloadErrorCaught ->
                /\ downloaded_files' = RecordedOnWriteError(downloaded_files, u)
                /\ stack' = SetTop([Top EXCEPT !.tasks[i].st = "done",
                                               !.tasks[i].result = "failed"])
                /\ UNCHANGED <<files, raising>>
           [] outcome = "status" \/ (outcome = "raise" /\ DownloadErrorCaught) ->
                /\ stack' = SetTop([Top EXCEPT !.tasks[i].st = "done",
                                               !.tasks[i].result = "failed"])
                /\ UNCHANGED <<files, downloaded_files, raising>>
           [] OTHER ->
                /\ raising' = TRUE
                /\ stack' = SetTop([Top EXCEPT !.pc = "except"])
                /\ UNCHANGED <<files, downloaded_files>>
  /\ UNCHANGED <<inputs, visited_urls, spc, driverFailed, srcsetFailed, renders, gets,
                 launches, quits, summary, mapVars>>

\* the loop left after the first completion
FirstAwaited(tasks) == tasks = <<>> \/ \E i \in DOMAIN tasks : tasks[i].st = "done"

\* lines 361-363: for task in asyncio.as_completed(tasks): await task
AllAwaited(tasks) == \A i \in DOMAIN tasks : tasks[i].st = "done"

\* lines 361-365: every task has been awaited
DownloadsDone ==
  /\ stack # <<>> /\ Top.pc = "download"
  /\ AllAwaited(Top.tasks)
  /\ stack' = SetTop([Top EXCEPT !.pc = "links"])
  /\ UNCHANGED <<inputs, visited_urls, downloaded_files, spc, raising, driverFailed, srcsetFailed,
                 renders, gets, launches, files, quits, summary, failures, mapVars>>

(***************************************************************************)
(* Links                                                                   *)
(***************************************************************************)

ExcludedPageExts == {".pdf", ".jpg", ".png", ".gif"}

\* lines 368-370: the condition under which a link is followed
FollowsLink(next_url) ==
  /\ StartsWith(next_url, base_url)
  /\ ~Visited(visited_urls, next_url)
  /\ ~EndsWithAny(next_url, ExcludedPageExts)

PageLinks(url) == Doc(web, url).links

\* the links taken from the last to the first
LinkAtReversed(url, i) == PageLinks(url)[Len(PageLinks(url)) + 1 - i]

\* line 366: for link in soup.find_all('a', href=True), the i-th link of the
\* document
LinkAt(url, i) == PageLinks(url)[i]

\* the link loop entered while driver.get of the page has not returned
AtLinkLoopOrRendering(f) == f.pc \in {"links", "render"}

\* lines 243-366: the link loop is reached after the blocking driver calls,
\* the page write, the extraction and the awaited downloads
AtLinkLoop(f) == f.pc = "links"

\* line 365 left out: the links are followed in interactive mode too
RecursesAlways == TRUE

\* line 365: if not self.interactive
Recurses == ~interactive

\* lines 366-371: the next link is followed
FollowLink ==
  /\ stack # <<>> /\ AtLinkLoop(Top) /\ Recurses
  /\ Top.next <= Len(PageLinks(Top.url))
  /\ LET next_url == Join(Top.url, LinkAt(Top.url, Top.next))
     IN  /\ FollowsLink(next_url)
         /\ CallProcessPage(next_url, SetTop([Top EXCEPT !.next = @ + 1]))
  /\ UNCHANGED <<inputs, downloaded_files, spc, raising, driverFailed, srcsetFailed, gets, launches,
                 files, quits, summary, failures, mapVars>>

\* lines 366-370: the next link is not followed
SkipLink ==
  /\ stack # <<>> /\ AtLinkLoop(Top) /\ Recurses
  /\ Top.next <= Len(PageLinks(Top.url))
  /\ ~FollowsLink(Join(Top.url, LinkAt(Top.url, Top.next)))
  /\ stack' = SetTop([Top EXCEPT !.next = @ + 1])
  /\ UNCHANGED <<inputs, visited_urls, downloaded_files, spc, raising, driverFailed, srcsetFailed,
                 renders, gets, launches, files, quits, summary, failures, mapVars>>

\* process_page returns: interactive, or no link is left
Return ==
  /\ stack # <<>> /\ Top.pc = "links"
  /\ ~Recurses \/ Top.next > Len(PageLinks(Top.url))
  /\ stack' = Pop
  /\ UNCHANGED <<inputs, visited_urls, downloaded_files, spc, raising, driverFailed, srcsetFailed,
                 renders, gets, launches, files, quits, summary, failures, mapVars>>

\* line 375 left out: the handler logs the exception and returns
ExceptSwallows == FALSE

\* line 375: the handler of process_page raises the exception again
ExceptReraises == TRUE

\* lines 373-375: the exception is logged and leaves the call; in the caller it
\* comes out of the await of line 371, inside the caller's try
Propagate ==
  /\ stack # <<>> /\ Top.pc = "except"
  /\ raising' = ExceptReraises
  /\ stack' = IF ExceptReraises /\ Len(stack) > 1
              THEN [Pop EXCEPT ![Len(stack) - 1].pc = "except"]
              ELSE Pop
  /\ UNCHANGED <<inputs, visited_urls, downloaded_files, spc, driverFailed, srcsetFailed, renders,
                 gets, launches, files, quits, summary, failures, mapVars>>

\* scrape, lines 383-384: process_page returned, the summary is logged
ScrapeSummary ==
  /\ spc = "running" /\ stack = <<>> /\ ~raising
  /\ summary' = TRUE
  /\ spc' = "finally"
  /\ UNCHANGED <<inputs, visited_urls, downloaded_files, stack, raising, driverFailed, srcsetFailed,
                 renders, gets, launches, files, quits, failures, mapVars>>

\* scrape, lines 385-386: finally, after the summary or with the exception
Quit ==
  /\ \/ spc = "finally"
     \/ spc = "running" /\ stack = <<>> /\ raising
  /\ quits' = quits + 1
  /\ spc' = "done"
  /\ UNCHANGED <<inputs, visited_urls, downloaded_files, stack, raising, driverFailed, srcsetFailed,
                 renders, gets, launches, files, summary, failures, mapVars>>

\* the analysis fetches of the page being extracted, the tasks of the page
\* being downloaded
TopSources == IF stack = <<>> THEN {} ELSE AnalysisSources(Doc(web, Top.url), Top.url)
TopTasks == IF stack = <<>> THEN {} ELSE DOMAIN Top.tasks

Next ==
  \/ ScrapeStart
  \/ RenderOk
  \/ \E c \in Commands : Command(c)
  \/ CommandDone
  \/ Settled
  \/ DriverFail
  \/ SavePage
  \/ \E fetched \in [TopSources -> FetchOutcomes] : Extract(fetched)
  \/ NetworkLog
  \/ \E i \in TopTasks : TaskStart(i)
  \/ \E i \in TopTasks, o \in DownloadOutcomes : TaskFinish(i, o)
  \/ DownloadsDone
  \/ FollowLink
  \/ SkipLink
  \/ Return
  \/ Propagate
  \/ ScrapeSummary
  \/ Quit

Spec == Init /\ [][Next]_vars

\* every driver call, fetch, write and prompt returns: the program, a single
\* chain of awaited coroutines, takes its next step whenever it has one
SpecLive == Init /\ [][Next]_vars /\ WF_vars(Next)

(***************************************************************************)
(* The Path Mapper on its own: the argument is drawn from MapInputs and    *)
(* the mapping is applied as process_page and download_resource apply it.  *)
(***************************************************************************)

MapPaths   == {"", "/", "/a/b", "/a/b/", "/a/b.css", "/p.html", "/img/logo.png"}
MapQueries == {"", "?v=1", "?q=/x/y.css"}

\* "page": a page URL, lines 309-315; "resource": a resource URL, lines 103-108;
\* "path": a url_path given to create_directory_structure as it is
MapInputs ==
  {[kind |-> k, p |-> p, q |-> q, url |-> Origin \o p \o q] :
     k \in {"page", "resource"}, p \in MapPaths, q \in MapQueries}
    \cup {[kind |-> "path", p |-> p, q |-> q, url |-> p \o q] :
             p \in MapPaths, q \in MapQueries}

InitMap ==
  /\ base_url \in BaseUrls
  /\ web = 1
  /\ interactive = FALSE
  /\ visited_urls = {}
  /\ downloaded_files = {}
  /\ stack = <<>>
  /\ spc = "init"
  /\ raising = FALSE
  /\ driverFailed = FALSE
  /\ srcsetFailed = FALSE
  /\ renders = <<>>
  /\ gets = <<>>
  /\ launches = <<>>
  /\ files = <<>>
  /\ quits = 0
  /\ summary = FALSE
  /\ failures = [analysis |-> 0, download |-> 0, write |-> 0]
  /\ mapArg \in MapInputs
  /\ mapResult = ""

\* the path the program computes for mapArg
ApplyMap ==
  /\ mapResult = ""
  /\ mapArg.kind = "resource" => ~ReturnedUnwritten(mapArg.url)
  /\ mapResult' =
       CASE mapArg.kind = "page"     -> PageSavePath(base_url, mapArg.url)
         [] mapArg.kind = "resource" -> ResourceSavePath(base_url, mapArg.url)
         [] OTHER                    -> create_directory_structure(base_url, mapArg.url)
  /\ UNCHANGED <<inputs, visited_urls, downloaded_files, stack, spc, raising,
                 driverFailed, srcsetFailed, renders, gets, launches, files, quits, summary,
                 failures, mapArg>>

NextMap == ApplyMap

SpecMap == InitMap /\ [][NextMap]_vars

(***************************************************************************)
(* Properties                                                              *)
(***************************************************************************)

Frames == Range(stack)
Written == UNION {Range(files[path]) : path \in DOMAIN files}
Finished == spc = "done" /\ summary /\ ~interactive

\* scheme and host of every known URL
OriginTable == [u \in KnownUrls |-> The({<<x.scheme, x.netloc>> : x \in {urlparse(u)}})]
SameOrigin(u, v) == OriginTable[u] = OriginTable[v]

\* C1: every URL is given to driver.get at most once, and the URLs rendered
\* are exactly the members of visited_urls
RenderedOnce ==
  /\ \A i, j \in DOMAIN renders : i # j => renders[i] # renders[j]
  /\ Range(renders) = visited_urls

\* C1: the crawl of the tangled web has ended after links back to visited
\* pages ("/" on every page) were met
RenderedOnceWitness ==
  /\ Finished /\ web = 2
  /\ {Root, About, Deep} \subseteq visited_urls

\* C2: download_resource issues at most one session.get per resource URL in
\* the whole run
FetchedOncePerRun ==
  /\ \A k \in DOMAIN gets : gets[k] <= 1
  /\ \A k1, k2 \in DOMAIN gets : k1[2] = k2[2] => k1 = k2

\* the URLs the sources of a page give, once extraction is over
Discovered(f) == f.found \cup loaded_resources(Doc(web, f.url), f.url)

TaskDone(t) == t.st = "done"

\* C3: for each page, each distinct discovered URL has exactly one download
\* task, whatever the number of sources that gave it; the task issues one
\* session.get, or none when it finds the URL in downloaded_files
OneTaskPerUrl ==
  /\ \A k \in DOMAIN launches : launches[k] = 1
  /\ \A k \in DOMAIN gets : gets[k] = 1 /\ k \in DOMAIN launches
  /\ \A f \in Frames : f.pc \in {"download", "links"} =>
       /\ {f.tasks[i].url : i \in DOMAIN f.tasks} = Discovered(f)
       /\ Len(f.tasks) = Cardinality(Discovered(f))
       /\ \A u \in Discovered(f) : Count(launches, <<f.url, u>>) = 1
       /\ \A i \in DOMAIN f.tasks :
            TaskDone(f.tasks[i]) =>
              IF f.tasks[i].result = "skipped"
              THEN Count(gets, <<f.url, f.tasks[i].url>>) = 0
                     /\ f.tasks[i].url \in downloaded_files
              ELSE Count(gets, <<f.url, f.tasks[i].url>>) = 1

\* C3: the logo of the root page is given by an img tag, by the browser's
\* resource log and by the text of the external script, and has been fetched
OneTaskPerUrlWitness ==
  /\ web = 2 /\ stack # <<>> /\ stack[1].pc = "links"
  /\ Logo \in FromMediaTags(Doc(web, Root), Root)
  /\ Logo \in loaded_resources(Doc(web, Root), Root)
  /\ Logo \in analyze_javascript(ScriptTextAt(CdnLib), Root)
  /\ JsUrl \in stack[1].found
  /\ Count(gets, <<stack[1].url, Logo>>) = 1

\* C4: every URL rendered after the starting URL has the scheme and host of
\* the starting URL and no excluded extension
LinksStayInOrigin ==
  \A i \in 2..Len(renders) :
    /\ SameOrigin(renders[i], base_url)
    /\ ~EndsWithAny(renders[i], ExcludedPageExts)

ExcludedSchemes == {"data:", "blob:", "javascript:"}

\* C5: no download task is made for a URL beginning with data:, blob: or
\* javascript:
NoExcludedScheme ==
  \A k \in DOMAIN launches : ~StartsWithAny(k[2], ExcludedSchemes)

\* C6: every resource written under the output root comes from a URL of the
\* site's origin or from a root-relative path
OnlyOwnOriginWritten ==
  \A w \in Written :
    w.kind = "resource" => SameOrigin(w.url, base_url) \/ StartsWith(w.url, "/")

\* C7, in every state: once a driver call has raised, the exception is on its
\* way out of every active process_page call, no summary is logged, and
\* driver.quit is called exactly once, by the end of scrape
FailureState ==
  /\ quits <= 1
  /\ spc = "done" <=> quits = 1
  /\ driverFailed =>
       /\ raising /\ ~summary
       /\ stack # <<>> => Top.pc = "except"
       /\ spc = "done" => stack = <<>>
       /\ spc # "done" => ENABLED (Propagate \/ Quit)

\* C7, in every step: once a driver call has raised, nothing more is rendered,
\* fetched or written, and what was written stays
FailureStep ==
  driverFailed =>
    /\ driverFailed'
    /\ renders' = renders
    /\ gets' = gets /\ launches' = launches
    /\ files' = files
    /\ downloaded_files' = downloaded_files /\ visited_urls' = visited_urls

\* C7: a failure of the Render Adapter ends the run: no further page or
\* resource, one driver.quit, no summary, the files written so far kept
RenderFailureAborts == [](FailureState) /\ [][FailureStep]_vars

\* C7: the driver failed on a page reached through a link, after files were
\* written, and scrape has ended
RenderFailureAbortsWitness ==
  /\ driverFailed /\ spc = "done" /\ quits = 1
  /\ Len(renders) >= 3
  /\ Cardinality(DOMAIN files) >= 3

InScopeLinks(url) ==
  {n \in {Join(url, l) : l \in Range(PageLinks(url))} :
     StartsWith(n, base_url) /\ ~EndsWithAny(n, ExcludedPageExts)}

\* C8: only a driver failure or a srcset that cannot be parsed raises out of a
\* page.  Failed downloads and failed analysis fetches leave the page
\* running: the sources that need no fetch are all in the resource set, every
\* task of the page ends, and every link the code follows has been visited
\* when the page returns
ErrorsContained ==
  /\ raising => driverFailed \/ srcsetFailed
  /\ \A f \in Frames : f.pc \in {"netlog", "download", "links"} =>
       /\ FromInlineScripts(Doc(web, f.url), f.url) \subseteq f.found
       /\ FromMediaTags(Doc(web, f.url), f.url) \subseteq f.found
       /\ FromMetaTags(Doc(web, f.url), f.url) \subseteq f.found
       /\ FromAttributeScan(Doc(web, f.url), f.url) \subseteq f.found
       /\ AnalysisSources(Doc(web, f.url), f.url) \subseteq f.found
  /\ \A f \in Frames : f.pc = "links" =>
       /\ \A i \in DOMAIN f.tasks : TaskDone(f.tasks[i])
       /\ {f.tasks[i].url : i \in DOMAIN f.tasks} = Discovered(f)
  /\ ~driverFailed /\ ~srcsetFailed /\ ~interactive =>
       \A u \in visited_urls :
         (\A f \in Frames : f.url # u) => InScopeLinks(u) \subseteq visited_urls

\* C8: a download and an analysis fetch have failed, and the crawl of the
\* tangled web has ended with every page visited
ErrorsContainedWitness ==
  /\ Finished /\ web = 2
  /\ failures.download >= 1 /\ failures.analysis >= 1
  /\ {Root, About, Deep} \subseteq visited_urls

\* one step of the links reachable in scope: same origin as the starting URL,
\* no excluded extension
ScopeStep(w, b, S) ==
  S \cup {n \in UNION {{JoinTable[u][l] : l \in Range(Doc(w, u).links)} : u \in S} :
            /\ urlparse(n).scheme = urlparse(b).scheme
            /\ urlparse(n).netloc = urlparse(b).netloc
            /\ ~EndsWithAny(n, ExcludedPageExts)}

RECURSIVE ScopeClosure(_, _, _, _)
ScopeClosure(w, b, S, n) ==
  IF n = 0 THEN S ELSE The({ScopeClosure(w, b, T, n - 1) : T \in {ScopeStep(w, b, S)}})

\* the URLs reachable from b through chains of in-scope links
ReachTable == [w \in Webs |-> [b \in BaseUrls |-> ScopeClosure(w, b, {b}, Cardinality(Pages))]]

PageWritten(u) ==
  \E path \in DOMAIN files :
    /\ path = PathTable[base_url][u].page
    /\ \E w \in Range(files[path]) : w.kind = "page" /\ w.url = u

\* C9: a crawl completed with no failed fetch has visited exactly the URLs
\* reachable through in-scope links and written each page at its mapped path;
\* in the end-to-end scenario the two pages are visited and the three files
\* exist
CrawlCoversScope ==
  (Finished /\ FailureCount = 0) =>
    /\ visited_urls = ReachTable[web][base_url]
    /\ \A u \in visited_urls : PageWritten(u)
    /\ (web = 1 /\ base_url = Root) =>
         /\ visited_urls = {Root, About}
         /\ {"scraped_site/example_test/index.html",
             "scraped_site/example_test/img/logo.png",
             "scraped_site/example_test/about/index.html"} \subseteq DOMAIN files

\* C10: the path returned for the root URL, the empty path and "/" is the
\* index file of the output root; a page with path /a/b goes to
\* a/b/index.html, the resource path /a/b.css to a/b.css; no returned path
\* holds a query string
PathMapperCorrect ==
  mapResult # "" =>
    /\ ~Contains(mapResult, "?") /\ ~Contains(mapResult, "v=1") /\ ~Contains(mapResult, "y.css")
    /\ (mapArg.p \in {"", "/"} /\ (mapArg.q = "" \/ mapArg.kind = "page")) =>
         mapResult = "scraped_site/example_test/index.html"
    /\ (mapArg.kind = "page" /\ mapArg.p = "/a/b") =>
         mapResult = "scraped_site/example_test/a/b/index.html"
    /\ (mapArg.kind # "page" /\ mapArg.p = "/a/b.css") =>
         mapResult = "scraped_site/example_test/a/b.css"

\* C10: a page URL with path /a/b and a query string has been mapped
PathMapperCorrectWitness ==
  /\ mapArg.kind = "page" /\ mapArg.p = "/a/b" /\ mapArg.q = "?v=1"
  /\ mapResult = "scraped_site/example_test/a/b/index.html"


\* every write made so far, as <<path, position in the history of the path>>
Writes == UNION {{<<path, i>> : i \in DOMAIN files[path]} : path \in DOMAIN files}
PageWrites == {w \in Writes : files[w[1]][w[2]].kind = "page"}

\* C11, in every state of an interactive run: only the starting URL is ever
\* visited or rendered, no second process_page call is active, no link is
\* consumed, no page is written before done and one is written after it
InteractiveState ==
  interactive =>
    /\ visited_urls \subseteq {base_url}
    /\ Len(renders) <= 1 /\ Len(stack) <= 1
    /\ Cardinality(PageWrites) <= 1
    /\ \A w \in PageWrites :
         /\ w[1] = PathTable[base_url][base_url].page
         /\ files[w[1]][w[2]].url = base_url
    /\ \A f \in Frames :
         /\ f.url = base_url /\ f.next = 1
         /\ f.pc \in {"render", "prompt", "settle", "save"} => PageWrites = {}
         /\ f.pc \in {"extract", "netlog", "download", "links"} =>
              Cardinality(PageWrites) = 1
    /\ (spc = "done" /\ summary) =>
         /\ visited_urls = {base_url}
         /\ Cardinality(PageWrites) = 1

\* C11, in every step of an interactive run: the page is written from the
\* state reached by done and the settle wait, whatever commands came before
InteractiveStep ==
  (interactive /\ stack # <<>> /\ stack' # <<>>) =>
    /\ (Top.pc # "settle" /\ stack'[Len(stack')].pc = "settle") => Top.pc = "prompt"
    /\ (Top.pc # "save" /\ stack'[Len(stack')].pc = "save") => Top.pc = "settle"
    /\ files' # files => Top.pc \in {"save", "download"}
    /\ PageWrites' # PageWrites => Top.pc = "save"

\* C11: in interactive mode one snapshot is taken, after done, and no link
\* is followed: the run ends with the starting URL alone in visited_urls and
\* one page file written
InteractiveSnapshot == [](InteractiveState) /\ [][InteractiveStep]_vars

\* C11: an interactive run on the tangled web, whose start page has links in
\* scope, has written its page after a command and done, and is past its links
InteractiveSnapshotWitness ==
  /\ interactive /\ web = 2
  /\ InScopeLinks(base_url) # {}
  /\ stack # <<>> /\ Top.pc = "links" /\ Top.cmds >= 1
  /\ Cardinality(PageWrites) = 1
  /\ visited_urls = {base_url}


\* C12: no path under the output root is written a second time in a run
AppendOnly ==
  \A path \in DOMAIN files : Len(files[path]) <= 1


\* the test a link passes to be followed, whatever has been visited
InScope(b, n) == StartsWith(n, b) /\ ~EndsWithAny(n, ExcludedPageExts)

\* depth-first preorder: acc holds the pages rendered so far, u is the page
\* whose links are walked and i the link whose turn has come; a link in
\* scope and not in acc is rendered and its subtree walked before link i + 1
RECURSIVE DfsFrom(_, _, _, _, _)
DfsFrom(w, b, u, i, acc) ==
  IF i > Len(Doc(w, u).links) THEN acc
  ELSE The({IF InScope(b, n) /\ n \notin Range(acc)
            THEN The({DfsFrom(w, b, u, i + 1, sub) :
                        sub \in {DfsFrom(w, b, n, 1, Append(acc, n))}})
            ELSE DfsFrom(w, b, u, i + 1, acc) :
              n \in {JoinTable[u][Doc(w, u).links[i]]}})

DfsTable == [w \in Webs |-> [b \in BaseUrls |-> DfsFrom(w, b, b, 1, <<b>>)]]

IsPrefix(s, t) == Len(s) <= Len(t) /\ SubSeq(t, 1, Len(s)) = s

\* C13: without interaction the pages are rendered in depth-first preorder,
\* links taken in document order: the subtree under a link is rendered whole
\* before the next link of the same page, and a link visited by then is skipped
DepthFirstOrder ==
  ~interactive =>
    /\ IsPrefix(renders, DfsTable[web][base_url])
    /\ Finished => renders = DfsTable[web][base_url]

\* C13: /a/b, the last link of the start page, was rendered under the earlier
\* link /about and is skipped when its turn comes
DepthFirstOrderWitness ==
  /\ Finished /\ web = 2 /\ base_url = Root
  /\ renders = <<Root, About, Deep>>
  /\ PageLinks(Root)[Len(PageLinks(Root))] = "/a/b"
  /\ PageLinks(Root)[1] = "/about"


InFlight(f) == {i \in DOMAIN f.tasks : ~TaskDone(f.tasks[i])}

\* C14: a page has tasks in flight only while it is the innermost call and
\* is downloading; a page that has followed or passed a link, or under which
\* another page is active, has every one of its tasks completed
DownloadsBeforeLinks ==
  \A k \in DOMAIN stack :
    /\ InFlight(stack[k]) # {} => k = Len(stack) /\ stack[k].pc = "download"
    /\ (k < Len(stack) \/ stack[k].next > 1 \/ stack[k].pc = "links") =>
         /\ InFlight(stack[k]) = {}
         /\ {stack[k].tasks[i].url : i \in DOMAIN stack[k].tasks} = Discovered(stack[k])
         /\ \A i \in DOMAIN stack[k].tasks :
              stack[k].tasks[i].result \in {"saved", "bytes", "skipped", "failed"}

\* C14: a second page is being rendered while the start page's tasks, one of
\* them failed, one saved and one returned unwritten, have all completed
DownloadsBeforeLinksWitness ==
  /\ web = 2 /\ Len(stack) = 2 /\ Top.pc = "render"
  /\ Len(stack[1].tasks) >= 3
  /\ {"failed", "saved", "bytes"} \subseteq
       {stack[1].tasks[i].result : i \in DOMAIN stack[1].tasks}


\* the lifecycle state of an active page: rendering up to the written
\* snapshot, extracting up to the resource set, downloading up to the return
Phase(pc) ==
  CASE pc \in {"render", "prompt", "settle", "save"} -> "Rendering"
    [] pc \in {"extract", "netlog"}                  -> "Extracting"
    [] pc \in {"download", "links"}                  -> "Downloading"
    [] OTHER                                         -> "Failed"

LifecycleMoves ==
  {<<"Rendering", "Extracting">>, <<"Extracting", "Downloading">>,
   <<"Rendering", "Failed">>}

\* a page becomes active as Rendering, changes state along LifecycleMoves
\* only, and leaves as Linked (a return from the link loop) or Failed
LifecycleStep ==
  /\ \A k \in DOMAIN stack \cap DOMAIN stack' :
       \/ Phase(stack[k].pc) = Phase(stack'[k].pc)
       \/ <<Phase(stack[k].pc), Phase(stack'[k].pc)>> \in LifecycleMoves
  /\ Len(stack') > Len(stack) => stack'[Len(stack')].pc = "render"
  /\ Len(stack') < Len(stack) => Top.pc \in {"links", "except"}

\* C15: every page goes Pending, Rendering, Extracting, Downloading, Linked
\* or Pending, Rendering, Failed: Failed is entered from Rendering only, and
\* no page that has reached Extracting fails
PageLifecycle == [][LifecycleStep]_vars


\* the write of the resource u made for page p, at the path mapped for u
ResourceWrite(u, p) == [kind |-> "resource", url |-> u, page |-> p]

\* C16, in every state: the members of downloaded_files are the URLs of the
\* resource writes, each made at the path the Path Mapper gives the URL
DownloadedState ==
  /\ \A u \in downloaded_files :
       /\ PathTable[base_url][u].resource \in DOMAIN files
       /\ \E w \in Range(files[PathTable[base_url][u].resource]) :
            w.kind = "resource" /\ w.url = u
  /\ \A path \in DOMAIN files : \A w \in Range(files[path]) :
       w.kind = "resource" =>
         w.url \in downloaded_files /\ path = PathTable[base_url][w.url].resource

\* C16, in every step: a URL enters downloaded_files only in the step of the
\* task that got status 200 for it and wrote it, one URL at a time, and no
\* URL leaves; a task that ends failed or with unwritten bytes adds nothing
DownloadedStep ==
  /\ downloaded_files \subseteq downloaded_files'
  /\ \A u \in downloaded_files' \ downloaded_files :
       /\ downloaded_files' = downloaded_files \cup {u}
       /\ stack # <<>> /\ Top.pc = "download"
       /\ files' = WriteFile(files, PathTable[base_url][u].resource,
                             ResourceWrite(u, Top.url))
       /\ \E i \in DOMAIN Top.tasks :
            /\ Top.tasks[i].url = u /\ Top.tasks[i].st = "get"
            /\ stack'[Len(stack')].tasks[i].result = "saved"
  /\ \A k \in DOMAIN stack \cap DOMAIN stack' : \A i \in DOMAIN stack[k].tasks :
       (/\ i \in DOMAIN stack'[k].tasks
        /\ stack[k].tasks[i].st = "get"
        /\ stack'[k].tasks[i].result \in {"failed", "bytes"}) =>
          downloaded_files' = downloaded_files /\ files' = files

\* C16: downloaded_files holds exactly the URLs fetched with success and
\* written at their mapped path, the write coming first
DownloadedIffWritten == [](DownloadedState) /\ [][DownloadedStep]_vars

\* C16: on one page a fetch was written and recorded, another returned its
\* bytes unwritten, and a third got status 200 and failed in the write
DownloadedIffWrittenWitness ==
  /\ web = 2 /\ failures.write >= 1
  /\ stack # <<>> /\ Top.pc = "links"
  /\ \E i, j, k \in DOMAIN Top.tasks :
       /\ Top.tasks[i].result = "saved" /\ Top.tasks[i].url \in downloaded_files
       /\ Top.tasks[j].result = "bytes" /\ Top.tasks[j].url \notin downloaded_files
       /\ Top.tasks[k].result = "failed" /\ Top.tasks[k].url \notin downloaded_files
       /\ StartsWith(Top.tasks[k].url, base_url)


\* C17: no two download tasks of one page write to the same path
TaskPathsDisjoint ==
  \A path \in DOMAIN files : \A i, j \in DOMAIN files[path] :
    (/\ i # j
     /\ files[path][i].kind = "resource" /\ files[path][j].kind = "resource") =>
       files[path][i].page # files[path][j].page


\* the calls between driver.get and page_source: the browser is on their page
Rendering(f) == f.pc \in {"render", "prompt", "settle"}

\* C18, in every state: at most one active call is rendering; it is the
\* innermost one, its page is the last URL given to driver.get, and no
\* download task of any page is in flight meanwhile
OneRenderState ==
  /\ Cardinality({k \in DOMAIN stack : Rendering(stack[k])}) <= 1
  /\ \A k \in DOMAIN stack : Rendering(stack[k]) =>
       /\ k = Len(stack)
       /\ renders # <<>> /\ renders[Len(renders)] = stack[k].url
       /\ \A f \in Frames : InFlight(f) = {}

\* C18, in every step: driver.get is called for one page at a time, when no
\* call is rendering and no task is in flight
OneRenderStep ==
  renders' # renders =>
    /\ Len(renders') = Len(renders) + 1
    /\ \A f \in Frames : ~Rendering(f) /\ InFlight(f) = {}

\* C18: the single browser renders one page at a time: render and settle
\* wait of a page end, or fail, before another page's render begins
OneRenderAtATime == [](OneRenderState) /\ [][OneRenderStep]_vars

\* C18: a third page is being rendered two calls deep, after downloads of
\* the pages above it were written
OneRenderAtATimeWitness ==
  /\ web = 2 /\ Len(stack) = 3 /\ Rendering(Top)
  /\ Len(renders) = 3
  /\ \A k \in 1..2 : \E i \in DOMAIN stack[k].tasks : stack[k].tasks[i].result = "saved"


\* C19, in every state: the active calls are calls on distinct visited pages,
\* so the recursion is no deeper than the number of pages; when scrape has
\* returned with the summary no call is active and no followed link is left
\* unvisited
FrontierState ==
  /\ Len(stack) <= Cardinality(visited_urls)
  /\ visited_urls \subseteq Pages
  /\ \A j, k \in DOMAIN stack : j # k => stack[j].url # stack[k].url
  /\ Finished =>
       /\ stack = <<>>
       /\ \A u \in visited_urls : InScopeLinks(u) \subseteq visited_urls

\* C19, in every step: visited_urls never loses a URL, and a call of
\* process_page that does work adds one URL that was not in it
VisitedGrows ==
  /\ visited_urls \subseteq visited_urls'
  /\ (Len(stack') > Len(stack) \/ renders' # renders) =>
       /\ Len(stack') = Len(stack) + 1
       /\ stack'[Len(stack')].url \notin visited_urls
       /\ visited_urls' = visited_urls \cup {stack'[Len(stack')].url}
       /\ renders' = Append(renders, stack'[Len(stack')].url)

\* C19: a crawl without interaction ends: scrape returns, with the summary
\* unless an exception has been raised
CrawlTerminates ==
  /\ [](FrontierState)
  /\ [][VisitedGrows]_vars
  /\ ~interactive => <>(spc = "done")
  /\ ~interactive => <>(raising \/ Finished)

\* C19: the crawl of the tangled web has returned; its start page links to
\* itself and /about links back to the start page
CrawlTerminatesWitness ==
  /\ Finished /\ web = 2 /\ base_url = Root /\ quits = 1 /\ stack = <<>>
  /\ Root \in InScopeLinks(Root)
  /\ About \in InScopeLinks(Root) /\ Root \in InScopeLinks(About)
  /\ Cardinality(visited_urls) = Len(renders)

=============================================================================
